---- MODULE Spec2Model ----
(***************************************************************************)
(* A model of the request-parsing pipeline of telegram-coronabot           *)
(* (src/core.py): the inclusive date Interval, the Parser contract, the    *)
(* ComposedParser and the concrete parsers built on them.                  *)
(*                                                                         *)
(* A datetime is a record [day, sec, us]: the ordinal of its calendar day, *)
(* the second of the day and the microsecond of the second.  Python orders *)
(* datetimes and timedeltas field by field, which is what DtLE and TdLT    *)
(* do; the arithmetic carries as Python's normalisation does.              *)
(***************************************************************************)
EXTENDS Integers, Sequences, FiniteSets, TLC

\* ------------------------------------------------------------------ bounds
\* Calendar days are 0..MaxDay.
MaxDay == 3

\* ------------------------------------------------------- datetime, timedelta
SecondsPerDay == 86400
MicrosPerSecond == 1000000

\* The times of day the inputs are drawn from: midnight, a time inside the
\* day, the last whole second, and an instant inside the last second.
TimesOfDay ==
    { [sec |-> 0, us |-> 0],
      [sec |-> 43200, us |-> 1],
      [sec |-> SecondsPerDay - 1, us |-> 0],
      [sec |-> SecondsPerDay - 1, us |-> 500000] }

DateTimes ==
    { [day |-> d, sec |-> t.sec, us |-> t.us] : d \in 0..MaxDay, t \in TimesOfDay }

\* datetime.timedelta(days, seconds), normalised to 0 <= secs < 86400.
timedelta(days, seconds) ==
    LET total == days * SecondsPerDay + seconds
    IN  [days |-> total \div SecondsPerDay, secs |-> total % SecondsPerDay, us |-> 0]

\* datetime + timedelta
DtAdd(d, td) ==
    LET us   == d.us + td.us
        sec  == d.sec + td.secs + (us \div MicrosPerSecond)
    IN  [day |-> d.day + td.days + (sec \div SecondsPerDay),
         sec |-> sec % SecondsPerDay,
         us  |-> us % MicrosPerSecond]

\* datetime - datetime, a normalised timedelta
DtSub(a, b) ==
    LET us  == a.us - b.us
        sec == (a.sec - b.sec) + (us \div MicrosPerSecond)
    IN  [days |-> (a.day - b.day) + (sec \div SecondsPerDay),
         secs |-> sec % SecondsPerDay,
         us   |-> us % MicrosPerSecond]

\* datetime <= datetime
DtLE(a, b) ==
    \/ a.day < b.day
    \/ a.day = b.day /\ a.sec < b.sec
    \/ a.day = b.day /\ a.sec = b.sec /\ a.us <= b.us

\* timedelta < timedelta
TdLT(a, b) ==
    \/ a.days < b.days
    \/ a.days = b.days /\ a.secs < b.secs
    \/ a.days = b.days /\ a.secs = b.secs /\ a.us < b.us

\* ---------------------------------------------------------------- Interval
\* def copy_date(d): return datetime.datetime(d.year, d.month, d.day)
copy_date(d) == [day |-> d.day, sec |-> 0, us |-> 0]

\* A bug the end of day could have: pushed to the next midnight.
IntervalEndNextMidnight(date_end) == DtAdd(copy_date(date_end), timedelta(1, 0))

\* self.end = copy_date(date_end) + datetime.timedelta(1, -1)
IntervalEnd(date_end) == DtAdd(copy_date(date_end), timedelta(1, -1))

\* self.start = copy_date(date_start)
IntervalStart(date_start) == copy_date(date_start)

\* A constructor that puts its operands in order, as the code does not.
Interval_reordered(date_start, date_end) ==
    IF DtLE(date_start, date_end)
    THEN [t |-> "interval", start |-> IntervalStart(date_start), end |-> IntervalEnd(date_end)]
    ELSE [t |-> "interval", start |-> IntervalStart(date_end), end |-> IntervalEnd(date_start)]

\* Interval.__init__
Interval(date_start, date_end) ==
    [t |-> "interval", start |-> IntervalStart(date_start), end |-> IntervalEnd(date_end)]

\* Interval.length
length(i) == DtSub(i.end, i.start)

\* Interval.is_single_day
is_single_day(i) == TdLT(length(i), timedelta(1, 0))

\* Interval.__contains__
Contains(i, date) == DtLE(i.start, date) /\ DtLE(date, i.end)

\* ------------------------------------------------------------------ strings
(***************************************************************************)
(* A string is a sequence of tokens: the separators "," and "-" and atoms, *)
(* the maximal runs of text between separators.  The patterns of           *)
(* src/constants.py tell three kinds of text apart, so an atom is Alpha    *)
(* (letters and spaces: [a-z ]+) or Num (a date phrase that starts with a  *)
(* digit, two characters or more of [a-z0-9 /]).  White space around a     *)
(* separator is not modelled: the patterns skip it with \s? or count it    *)
(* among the letters.                                                      *)
(***************************************************************************)
Comma == ","
Hyphen == "-"

\* The words of the requests, and the first letter of each.
Words ==
    { "oggi", "boh", "italia", "lazio", "rome", "roma", "atlantide",
      "tamponi", "dimessi guariti", "pippo" }
Letters == { "o", "b", "i", "l", "r", "a", "t", "d", "p" }
AlphaAtoms == Words \cup Letters
NumAtoms == { "24/02/2020", "24/02" }

IsAlpha(tok) == tok \in AlphaAtoms
IsNum(tok) == tok \in NumAtoms
IsAtom(tok) == IsAlpha(tok) \/ IsNum(tok)

\* The shortest text the lazy pattern registry.date takes from the front of an
\* atom when nothing has to follow it: one letter ([a-z' ]+?), or the digits,
\* one more character and the digits after it
\* ([0-9]+[a-z0-9 \-\\/]+?(?:[0-9]{2,4})?).
LazyDate(atom) ==
    CASE atom \in {"oggi", "o"} -> "o"
      [] atom \in {"boh", "b"} -> "b"
      [] atom \in {"italia", "i"} -> "i"
      [] atom \in {"lazio", "l"} -> "l"
      [] atom \in {"rome", "roma", "r"} -> "r"
      [] atom \in {"atlantide", "a"} -> "a"
      [] atom \in {"tamponi", "t"} -> "t"
      [] atom \in {"dimessi guariti", "d"} -> "d"
      [] atom \in {"pippo", "p"} -> "p"
      [] atom \in {"24/02/2020", "24/02"} -> "24/02"

\* str.replace(' ', '_')
ReplaceSpaces(atom) == IF atom = "dimessi guariti" THEN "dimessi_guariti" ELSE atom

\* The tokens of s before its first comma, and those after it.
RECURSIVE UpToComma(_)
UpToComma(s) ==
    IF s = <<>> \/ Head(s) = Comma THEN <<>> ELSE <<Head(s)>> \o UpToComma(Tail(s))

\* The comma-separated segments of s (str.split(',')): one more than its commas.
RECURSIVE Segments(_)
Segments(s) ==
    LET first == UpToComma(s)
    IN  IF Len(first) = Len(s) THEN <<first>>
        ELSE <<first>> \o Segments(SubSeq(s, Len(first) + 2, Len(s)))

\* s matches registry.location in full: [a-z][a-z \-']*?
MatchesLocation(s) ==
    /\ Len(s) >= 1
    /\ IsAlpha(s[1])
    /\ \A k \in 1..Len(s) : IsAlpha(s[k]) \/ s[k] = Hyphen

\* s matches registry.date in full:
\* (?:[0-9]+[a-z0-9 \-\\/]+?(?:[0-9]{2,4})?|[a-z' ]+?)
MatchesDate(s) ==
    /\ Len(s) >= 1
    /\ \/ IsNum(s[1]) /\ \A k \in 1..Len(s) : IsAtom(s[k]) \/ s[k] = Hyphen
       \/ \A k \in 1..Len(s) : IsAlpha(s[k])

\* s matches registry.stat in full: [a-z ]+
MatchesStat(s) == Len(s) >= 1 /\ \A k \in 1..Len(s) : IsAlpha(s[k])

\* s matches registry.interval in full: date \s?-\s? date
MatchesInterval(s) ==
    \E k \in 1..Len(s) :
        /\ s[k] = Hyphen
        /\ MatchesDate(SubSeq(s, 1, k - 1))
        /\ MatchesDate(SubSeq(s, k + 1, Len(s)))

\* ------------------------------------------- reference configuration
(***************************************************************************)
(* src/constants.py loads the location registry and the statistic schema   *)
(* from assets/*.json; a small registry with one name of each tier and one *)
(* alias stands for them.                                                  *)
(***************************************************************************)
country == <<"italia">>
regions == { <<"lazio">> }
provinces == { <<"roma">> }
location_aliases == [ n \in { <<"rome">> } |-> <<"roma">> ]
stats == { "tamponi", "dimessi_guariti", "totale_casi" }

\* The day dateparser gives for "24/02/2020", the first day of the calendar.
EpidemicStartDay == 0

\* --------------------------------------------------------- the environment
VARIABLES
    env         \* what the date resolver answers: the present instant, and
                \* whether it resolves the fragments of a date phrase

\* The present instant is the midnight or an instant of the last second of the
\* day after the first; the fragment of a numeric date ("24/02") is resolved
\* or not.
Environments ==
    { [now |-> [day |-> EpidemicStartDay + 1, sec |-> t.sec, us |-> t.us], fragments |-> f] :
        t \in { x \in TimesOfDay : x.us # 1 /\ (x.sec = 0 \/ x.us # 0) },
        f \in BOOLEAN }

\* ------------------------------------------------------------------ values
None == [t |-> "None"]

\* The arguments of an exception; the fields an exception does not use keep
\* these values.
NoException ==
    [t |-> "args", exc |-> "", string |-> <<>>, i |-> -1, field |-> <<>>,
     error |-> None, nfields |-> -1, nparsers |-> -1]

\* Parser.ConversionError(string), as the simple parsers raise it
ConversionError1(string) ==
    [NoException EXCEPT !.exc = "ConversionError", !.string = string]

\* Parser.ConversionError(i, field, parser_instance.error)
ConversionError3(i, field, error) ==
    [NoException EXCEPT !.exc = "ConversionError", !.i = i, !.field = field,
                        !.error = error]

\* Any other exception
Exception(name) == [NoException EXCEPT !.exc = name]

\* What a call of convert does: it returns a value or raises, and the
\* sub-parser invocations it made, in order.
Returns(value, calls) ==
    [kind |-> "value", value |-> value, args |-> NoException, calls |-> calls]
Raises(args, calls) ==
    [kind |-> IF args.exc = "ConversionError" THEN "ConversionError" ELSE "Exception",
     value |-> None, args |-> args, calls |-> calls]

\* ---------------------------------------------------------------- Location
\* A mistake the lookup could make: dict.get, which has None for a name that
\* is not an alias.
resolve_alias_get(lname, aliases) ==
    IF lname \in DOMAIN aliases THEN aliases[lname] ELSE <<"None">>

\* Location.resolve_alias
resolve_alias(lname, aliases) ==
    IF lname \in DOMAIN aliases THEN aliases[lname] ELSE lname

\* Location(name, level)
Location(name, level) == [t |-> "Location", name |-> name, level |-> level]

\* ---------------------------------------------------------- simple parsers
\* dateparser.parse(string, languages=['it', 'en']): a datetime, or None.
\* "oggi" is the present instant, a full numeric date its midnight; the
\* fragment of a numeric date is resolved or not, as the environment has it;
\* nothing else is a date.
dateparser_parse(e, string) ==
    CASE string = <<"oggi">> -> [t |-> "datetime", dt |-> e.now]
      [] string = <<"24/02/2020">> ->
            [t |-> "datetime", dt |-> [day |-> EpidemicStartDay, sec |-> 0, us |-> 0]]
      [] string = <<"24/02">> /\ e.fragments ->
            [t |-> "datetime", dt |-> [day |-> EpidemicStartDay, sec |-> 0, us |-> 0]]
      [] OTHER -> None

\* DateParser.convert
DateParser_convert(e, string) ==
    LET result == dateparser_parse(e, string)
    IN  IF result = None THEN Raises(ConversionError1(string), <<>>)
        ELSE Returns(result, <<>>)

\* The location registry src/constants.py loads: the module attributes
\* LocationParser.convert reads.
Registry ==
    [country |-> country, regions |-> regions, provinces |-> provinces,
     location_aliases |-> location_aliases]

\* A mistake the classification could make: the provinces looked up before
\* the regions.
LocationParser_convert_provinces_first(registry, string0) ==
    LET string == resolve_alias(string0, registry.location_aliases)
    IN  IF string = registry.country THEN Returns(Location(string, "stato"), <<>>)
        ELSE IF string \in registry.provinces THEN Returns(Location(string, "provincia"), <<>>)
        ELSE IF string \in registry.regions THEN Returns(Location(string, "regione"), <<>>)
        ELSE Raises(ConversionError1(string), <<>>)

\* LocationParser.convert, reading the registry it is given
LocationParser_convert_in(registry, string0) ==
    LET string == resolve_alias(string0, registry.location_aliases)
    IN  IF string = registry.country THEN Returns(Location(string, "stato"), <<>>)
        ELSE IF string \in registry.regions THEN Returns(Location(string, "regione"), <<>>)
        ELSE IF string \in registry.provinces THEN Returns(Location(string, "provincia"), <<>>)
        ELSE Raises(ConversionError1(string), <<>>)

\* LocationParser.convert with the registry the process loaded
LocationParser_convert(string0) == LocationParser_convert_in(Registry, string0)

\* string.replace(' ', '_') on a string of the model
replace_spaces(string) == [k \in 1..Len(string) |-> ReplaceSpaces(string[k])]

\* StatParser.convert
StatParser_convert(string) ==
    LET result == replace_spaces(string)
    IN  IF ~(Len(result) = 1 /\ result[1] \in stats)
        THEN Raises(ConversionError1(string), <<>>)
        ELSE Returns([t |-> "str", s |-> replace_spaces(string)], <<>>)

\* The message a parser renders for a recognized failure: the template of the
\* parser class and the text it quotes.
Message(template, quoted) == [t |-> "message", template |-> template, quoted |-> quoted]

\* -------------------------------------------------------- parser classes
(***************************************************************************)
(* The classes of src/core.py, and three subclasses of ComposedParser      *)
(* whose split is string.split(','): ComposedParser leaves split to its    *)
(* subclasses, and these are the ones whose split can give any number of   *)
(* fields.                                                                 *)
(***************************************************************************)
SimpleClasses == { "Parser", "DateParser", "LocationParser", "StatParser" }
CommaClasses == { "CommaParser1", "CommaParser2", "CommaParser3" }
ComposedClasses ==
    { "IntervalParser", "ReportRequestParser", "TrendRequestParser" } \cup CommaClasses
Classes == SimpleClasses \cup ComposedClasses

\* ComposedParser.subparsers, as each __init__ passes it
subparsers(cls) ==
    CASE cls = "IntervalParser" -> <<"DateParser", "DateParser">>
      [] cls = "ReportRequestParser" -> <<"LocationParser", "DateParser">>
      [] cls = "TrendRequestParser" -> <<"StatParser", "LocationParser", "IntervalParser">>
      [] cls = "CommaParser1" -> <<"DateParser">>
      [] cls = "CommaParser2" -> <<"StatParser", "LocationParser">>
      [] cls = "CommaParser3" -> <<"StatParser", "LocationParser", "DateParser">>

\* What a call of split does: the fields, or the exception of a failed unpacking.
Fields(fields) == [ok |-> TRUE, fields |-> fields, exc |-> ""]
SplitRaises(name) == [ok |-> FALSE, fields |-> <<>>, exc |-> name]

(***************************************************************************)
(* IntervalParser.split.  re.split(f"({registry.interval})", string) cuts *)
(* the string at every match of date\s?-\s?date, and a match is found at   *)
(* each hyphen that has an atom on both sides (the hyphens are written     *)
(* with a space on each side, as in the bot's examples): the unpacking     *)
(* into three names raises ValueError unless there is exactly one.  The    *)
(* pattern is lazy: the first date is the longest date before the hyphen,  *)
(* and the second date stops as soon as it can, LazyDate.                  *)
(***************************************************************************)
IntervalParser_split(string) ==
    LET hyphens == { k \in 2..(Len(string) - 1) :
                        /\ string[k] = Hyphen
                        /\ IsAtom(string[k - 1])
                        /\ IsAtom(string[k + 1]) }
    IN  IF Cardinality(hyphens) # 1 THEN SplitRaises("ValueError")
        ELSE LET k == CHOOSE h \in hyphens : TRUE
                 starts == { j \in 1..(k - 1) : MatchesDate(SubSeq(string, j, k - 1)) }
                 j0 == CHOOSE j \in starts : \A j2 \in starts : j <= j2
                 sdate == SubSeq(string, j0, k - 1)
                 edate == <<LazyDate(string[k + 1])>>
             IN  Fields(<<sdate, edate>>)

(***************************************************************************)
(* ReportRequestParser.split: registry.report_request is                  *)
(* ^(location)(?:,\s?(date))?$, and the unpacking into four names raises   *)
(* ValueError when the string does not match.                              *)
(***************************************************************************)
ReportRequestParser_split(string) ==
    LET segments == Segments(string)
    IN  IF Len(segments) = 1 /\ MatchesLocation(segments[1])
        THEN Fields(<<segments[1], <<"oggi">>>>)
        ELSE IF /\ Len(segments) = 2
                /\ MatchesLocation(segments[1])
                /\ MatchesDate(segments[2])
        THEN Fields(<<segments[1], segments[2]>>)
        ELSE SplitRaises("ValueError")

\* The field TrendRequestParser.split puts for an absent location, and for an
\* absent interval.
DefaultLocation == <<"italia">>
DefaultInterval == <<"24/02/2020", Hyphen, "oggi">>

\* A bug the split could have: the field after the statistic is always taken
\* for the location, so the country never stands in when an interval follows
\* the statistic directly.
TrendRequestParser_split_second_is_location(string) ==
    LET segments == Segments(string)
        n == Len(segments)
    IN  IF n = 1 /\ MatchesStat(segments[1])
        THEN Fields(<<segments[1], DefaultLocation, DefaultInterval>>)
        ELSE IF /\ n = 2
                /\ MatchesStat(segments[1])
                /\ (MatchesLocation(segments[2]) \/ MatchesInterval(segments[2]))
        THEN Fields(<<segments[1], segments[2], DefaultInterval>>)
        ELSE IF /\ n = 3
                /\ MatchesStat(segments[1])
                /\ MatchesLocation(segments[2])
                /\ MatchesInterval(segments[3])
        THEN Fields(<<segments[1], segments[2], segments[3]>>)
        ELSE SplitRaises("ValueError")

(***************************************************************************)
(* TrendRequestParser.split: registry.trend_request is                    *)
(* ^(stat)(?:,\s?(location))?(?:,\s?(interval))?$.  With one field after   *)
(* the statistic the pattern tries it as the location first, and as the    *)
(* interval only when it is no location.                                   *)
(***************************************************************************)
TrendRequestParser_split(string) ==
    LET segments == Segments(string)
        n == Len(segments)
    IN  IF n = 1 /\ MatchesStat(segments[1])
        THEN Fields(<<segments[1], DefaultLocation, DefaultInterval>>)
        ELSE IF n = 2 /\ MatchesStat(segments[1]) /\ MatchesLocation(segments[2])
        THEN Fields(<<segments[1], segments[2], DefaultInterval>>)
        ELSE IF n = 2 /\ MatchesStat(segments[1]) /\ MatchesInterval(segments[2])
        THEN Fields(<<segments[1], DefaultLocation, segments[2]>>)
        ELSE IF /\ n = 3
                /\ MatchesStat(segments[1])
                /\ MatchesLocation(segments[2])
                /\ MatchesInterval(segments[3])
        THEN Fields(<<segments[1], segments[2], segments[3]>>)
        ELSE SplitRaises("ValueError")

\* ComposedParser.split of each subclass
split(cls, string) ==
    CASE cls = "IntervalParser" -> IntervalParser_split(string)
      [] cls = "ReportRequestParser" -> ReportRequestParser_split(string)
      [] cls = "TrendRequestParser" -> TrendRequestParser_split(string)
      [] cls \in CommaClasses -> Fields(Segments(string))

\* ComposedParser.reduce, and IntervalParser.reduce
reduce(cls, partial_results) ==
    IF cls = "IntervalParser"
    THEN Interval(partial_results[1].dt, partial_results[2].dt)
    ELSE [t |-> "list", items |-> partial_results]

\* ------------------------------------------------------ the Parser contract
\* Parser.__init__
NewInstance(cls) == [cls |-> cls, status |-> FALSE, result |-> None, error |-> None]

\* A bug the result property could have: the value is given whatever the status.
result_unguarded(self) == [raised |-> FALSE, value |-> self.result]

\* Parser.result: the value, or ParserError
result(self) ==
    IF self.status = TRUE THEN [raised |-> FALSE, value |-> self.result]
    ELSE [raised |-> TRUE, value |-> None]

\* A bug make_error_message could have: the composed parser renders a message of
\* its own for the field instead of handing on the sub-parser's.
make_error_message_own(cls, error, string) ==
    CASE cls = "DateParser" -> Message("date", error.string)
      [] cls = "LocationParser" -> Message("location", string)
      [] cls = "StatParser" -> Message("stat", string)
      [] cls \in ComposedClasses -> Message("field", error.field)

\* make_error_message of each class.  DateParser quotes error.args[0], the
\* other simple parsers the string; ComposedParser returns error.args[2], the
\* message of the sub-parser that failed.
make_error_message(cls, error, string) ==
    CASE cls = "DateParser" -> Message("date", error.string)
      [] cls = "LocationParser" -> Message("location", string)
      [] cls = "StatParser" -> Message("stat", string)
      [] cls \in ComposedClasses -> error.error

\* A bug parse could have: a recognized failure leaves the error as it was.
parse_with_error_unset(self, string, c) ==
    LET self1 == [self EXCEPT !.status = FALSE]
    IN  CASE c.kind = "value" ->
                LET self2 == [self1 EXCEPT !.result = c.value, !.status = TRUE]
                IN  [self |-> self2, returned |-> self2.status, raised |-> FALSE, conv |-> c]
          [] c.kind = "ConversionError" ->
                [self |-> self1, returned |-> self1.status, raised |-> FALSE, conv |-> c]
          [] c.kind = "Exception" ->
                LET self2 == [self1 EXCEPT !.status = FALSE, !.error = c.args]
                IN  [self |-> self2, returned |-> FALSE, raised |-> TRUE, conv |-> c]

\* A change parse could have: a success clears the error of an earlier call.
parse_with_error_cleared(self, string, c) ==
    LET self1 == [self EXCEPT !.status = FALSE]
    IN  CASE c.kind = "value" ->
                LET self2 == [self1 EXCEPT !.result = c.value, !.status = TRUE,
                                           !.error = None]
                IN  [self |-> self2, returned |-> self2.status, raised |-> FALSE, conv |-> c]
          [] c.kind = "ConversionError" ->
                LET self2 == [self1 EXCEPT !.status = FALSE,
                                           !.error = make_error_message(self.cls, c.args, string)]
                IN  [self |-> self2, returned |-> self2.status, raised |-> FALSE, conv |-> c]
          [] c.kind = "Exception" ->
                LET self2 == [self1 EXCEPT !.status = FALSE, !.error = c.args]
                IN  [self |-> self2, returned |-> FALSE, raised |-> TRUE, conv |-> c]

\* A bug parse could have: any exception of convert is taken for a failure of
\* the input, and the status is returned.
parse_with_swallowed(self, string, c) ==
    LET self1 == [self EXCEPT !.status = FALSE]
    IN  CASE c.kind = "value" ->
                LET self2 == [self1 EXCEPT !.result = c.value, !.status = TRUE]
                IN  [self |-> self2, returned |-> self2.status, raised |-> FALSE, conv |-> c]
          [] c.kind = "ConversionError" ->
                LET self2 == [self1 EXCEPT !.status = FALSE,
                                           !.error = make_error_message(self.cls, c.args, string)]
                IN  [self |-> self2, returned |-> self2.status, raised |-> FALSE, conv |-> c]
          [] c.kind = "Exception" ->
                LET self2 == [self1 EXCEPT !.status = FALSE, !.error = c.args]
                IN  [self |-> self2, returned |-> self2.status, raised |-> FALSE, conv |-> c]

\* Parser.parse, given what its call of convert does (c): the instance after
\* the call, the status it returns, whether it raises ParserError instead, and
\* what convert did.
parse_with(self, string, c) ==
    LET self1 == [self EXCEPT !.status = FALSE]
    IN  CASE c.kind = "value" ->
                LET self2 == [self1 EXCEPT !.result = c.value, !.status = TRUE]
                IN  [self |-> self2, returned |-> self2.status, raised |-> FALSE, conv |-> c]
          [] c.kind = "ConversionError" ->
                LET self2 == [self1 EXCEPT !.status = FALSE,
                                           !.error = make_error_message(self.cls, c.args, string)]
                IN  [self |-> self2, returned |-> self2.status, raised |-> FALSE, conv |-> c]
          [] c.kind = "Exception" ->
                LET self2 == [self1 EXCEPT !.status = FALSE, !.error = c.args]
                IN  [self |-> self2, returned |-> FALSE, raised |-> TRUE, conv |-> c]

RECURSIVE convert(_, _, _)

\* Parser.parse, where the date resolver answers as e has it
parse(e, self, string) == parse_with(self, string, convert(e, self.cls, string))

\* The invocations a sub-parser made, seen from the parser that invoked it as
\* its i-th.
Nested(i, calls) ==
    [k \in 1..Len(calls) |-> [calls[k] EXCEPT !.path = <<i>> \o calls[k].path]]

RECURSIVE run_subparsers(_, _, _, _, _, _)

\* The entries of the sub-parsers from the k-th on, each invoked on its field.
LaterCalls(cls, fields, k) ==
    [j \in 1..(Len(fields) - k + 1) |->
        [path |-> <<k + j - 2>>, cls |-> subparsers(cls)[k + j - 1],
         field |-> fields[k + j - 1]]]

\* A bug the loop could have: every sub-parser is run, and the first failure is
\* raised after the loop.
run_subparsers_to_the_end(e, cls, fields, k, results, calls) ==
    IF k > Len(fields) THEN Returns(reduce(cls, results), calls)
    ELSE LET parser_instance == NewInstance(subparsers(cls)[k])
             sub == parse(e, parser_instance, fields[k])
             calls1 == calls
                        \o <<[path |-> <<k - 1>>, cls |-> parser_instance.cls, field |-> fields[k]]>>
                        \o Nested(k - 1, sub.conv.calls)
         IN  IF sub.raised THEN Raises(Exception("ParserError"), calls1)
             ELSE IF sub.returned = FALSE
             THEN Raises(ConversionError3(k - 1, fields[k], sub.self.error),
                         calls1 \o LaterCalls(cls, fields, k + 1))
             ELSE run_subparsers(e, cls, fields, k + 1,
                                 Append(results, result(sub.self).value), calls1)

\* The loop of ComposedParser.convert from its k-th round on (Python's i is
\* k - 1): each sub-parser class is instantiated and parses its field; a
\* ParserError of the sub-parser passes through, a False status raises
\* ConversionError(i, field, parser_instance.error) and the loop ends there.
run_subparsers(e, cls, fields, k, results, calls) ==
    IF k > Len(fields) THEN Returns(reduce(cls, results), calls)
    ELSE LET parser_instance == NewInstance(subparsers(cls)[k])
             sub == parse(e, parser_instance, fields[k])
             calls1 == calls
                        \o <<[path |-> <<k - 1>>, cls |-> parser_instance.cls, field |-> fields[k]]>>
                        \o Nested(k - 1, sub.conv.calls)
         IN  IF sub.raised THEN Raises(Exception("ParserError"), calls1)
             ELSE IF sub.returned = FALSE
             THEN Raises(ConversionError3(k - 1, fields[k], sub.self.error), calls1)
             ELSE run_subparsers(e, cls, fields, k + 1,
                                 Append(results, result(sub.self).value), calls1)

\* A bug convert could have: the fields are not counted, and zip pairs as many
\* fields and sub-parsers as there are of both.
ComposedParser_convert_uncounted(e, cls, string) ==
    LET fields == split(cls, string)
        n == IF Len(fields.fields) < Len(subparsers(cls))
             THEN Len(fields.fields) ELSE Len(subparsers(cls))
    IN  IF ~fields.ok THEN Raises(Exception(fields.exc), <<>>)
        ELSE run_subparsers(e, cls, SubSeq(fields.fields, 1, n), 1, <<>>, <<>>)

\* ComposedParser.convert
ComposedParser_convert(e, cls, string) ==
    LET fields == split(cls, string)
    IN  IF ~fields.ok THEN Raises(Exception(fields.exc), <<>>)
        ELSE IF Len(fields.fields) # Len(subparsers(cls))
        THEN Raises([Exception("ParserError") EXCEPT
                        !.nfields = Len(fields.fields),
                        !.nparsers = Len(subparsers(cls))], <<>>)
        ELSE run_subparsers(e, cls, fields.fields, 1, <<>>, <<>>)

\* convert of each class; Parser.convert raises NotImplementedError.
convert(e, cls, string) ==
    CASE cls = "Parser" -> Raises(Exception("NotImplementedError"), <<>>)
      [] cls = "DateParser" -> DateParser_convert(e, string)
      [] cls = "LocationParser" -> LocationParser_convert(string)
      [] cls = "StatParser" -> StatParser_convert(string)
      [] cls \in ComposedClasses -> ComposedParser_convert(e, cls, string)

\* ---------------------------------------------------------------- inputs
\* The fields of the strings handed to the comma-splitting parsers number at
\* most MaxFields.
MaxFields == 3

\* The fields joined by commas: ', '.join(fields)
RECURSIVE Join(_)
Join(fields) ==
    IF Len(fields) = 0 THEN <<>>
    ELSE IF Len(fields) = 1 THEN fields[1]
    ELSE fields[1] \o <<Comma>> \o Join(Tail(fields))

DateTexts == { <<"oggi">>, <<"24/02/2020">>, <<"boh">> }
LocationTexts == { <<"italia">>, <<"lazio">>, <<"rome">>, <<"roma">>, <<"atlantide">> }
StatTexts == { <<"tamponi">>, <<"dimessi guariti">>, <<"pippo">> }
IntervalTexts ==
    { a \o <<Hyphen>> \o b : a \in DateTexts, b \in DateTexts \cup { <<"24/02">> } }
    \cup { <<"oggi">>, <<"24/02/2020", Hyphen, "24/02/2020", Hyphen, "oggi">> }

\* The strings each class of parser is given.
Inputs(cls) ==
    CASE cls = "Parser" -> { <<"oggi">>, <<"boh">> }
      [] cls = "DateParser" -> DateTexts \cup { <<"24/02">>, <<"o">> }
      [] cls = "LocationParser" -> LocationTexts
      [] cls = "StatParser" -> StatTexts
      [] cls = "IntervalParser" -> IntervalTexts
      [] cls = "ReportRequestParser" ->
            LET places == { <<"lazio">>, <<"rome">>, <<"atlantide">> }
            IN  places
                \cup { Join(<<l, d>>) : l \in places, d \in DateTexts }
                \cup { Join(<<<<"lazio">>, <<"oggi">>, <<"oggi">>>>), <<"24/02/2020">> }
      [] cls = "TrendRequestParser" ->
            LET names == { <<"tamponi">>, <<"pippo">> }
                places == { <<"lazio">>, <<"atlantide">> }
                intervals == { <<"24/02/2020", Hyphen, "24/02">>,
                               <<"24/02/2020", Hyphen, "oggi">>,
                               <<"boh", Hyphen, "24/02/2020">>,
                               <<"oggi", Hyphen, "boh">>,
                               <<"24/02/2020", Hyphen, "24/02/2020", Hyphen, "oggi">> }
            IN  names
                \cup { Join(<<n, l>>) : n \in names, l \in places }
                \cup { Join(<<n, i>>) : n \in names, i \in intervals }
                \cup { Join(<<n, l, i>>) : n \in names, l \in places, i \in intervals }
      [] cls \in CommaClasses ->
            { Join(f) : f \in UNION { [1..n -> { <<"tamponi">>, <<"lazio">>, <<"oggi">> }] :
                                        n \in 0..MaxFields } }

\* ----------------------------------------------- the parser state machine
VARIABLES
    parser,     \* the parser instance: its class, status, _result and error
    ret,        \* the last parse call: its string and what it did
    read        \* the last read of parser.result since that call

NoRet ==
    [called |-> FALSE, string |-> <<>>, returned |-> FALSE, raised |-> FALSE,
     conv |-> Returns(None, <<>>)]
NoRead == [made |-> FALSE, raised |-> FALSE, value |-> None]

\* What convert does on each input of each class in each environment: convert
\* reads nothing but its arguments and the resolver, so it is worked out once.
Converted ==
    [e \in Environments |->
        [cls \in Classes |-> [string \in Inputs(cls) |-> convert(e, cls, string)]]]

\* ------------------------------------------------------- InfectionDataset
(***************************************************************************)
(* A dict of arrays is a function from its keys to sequences.  The dates   *)
(* of a table are the instants the tables are published at, 17:00 of each  *)
(* day; the values of the other columns are numbers.                       *)
(***************************************************************************)
\* Arrays have 0..MaxRows elements.
MaxRows == 3

RowDates == { [day |-> d, sec |-> 61200, us |-> 0] : d \in { 0, MaxDay } }
RowValues == { 7, 9 }

\* The sequences of at most n elements of S
SeqsUpTo(S, n) == UNION { [1..k -> S] : k \in 0..n }

\* What a call on a dataset does: it returns a value or raises.
DsReturns(value) == [raised |-> FALSE, exc |-> "", payload |-> {}, value |-> value]
DsRaises(exc) == [raised |-> TRUE, exc |-> exc, payload |-> {}, value |-> None]

\* A mistake the constructor could make: only the presence of the dates is checked.
InfectionDataset_unsized(location, interval, data) ==
    IF "data" \notin DOMAIN data
    THEN DsRaises("ValueError")
    ELSE DsReturns([t |-> "InfectionDataset", location |-> location, interval |-> interval,
                    data |-> data])

\* InfectionDataset.__init__
InfectionDataset(location, interval, data) ==
    IF "data" \notin DOMAIN data
    THEN DsRaises("ValueError")
    ELSE LET data_size == Len(data["data"])
         IN  IF \E k \in DOMAIN data : Len(data[k]) # data_size
             THEN DsRaises("ValueError")
             ELSE DsReturns([t |-> "InfectionDataset", location |-> location,
                             interval |-> interval, data |-> data])

\* InfectionDataset.dates
dates(self) == self.data["data"]

\* InfectionDataset.stats
dataset_stats(self) == DOMAIN self.data \ { "data" }

\* InfectionDataset.__len__
dataset_len(self) == Len(dates(self))

\* A mistake the assignment could make: the array is stored before it is measured.
setitem_store_first(self, key, value) ==
    [raised |-> Len(value) # dataset_len(self),
     exc |-> IF Len(value) # dataset_len(self) THEN "ValueError" ELSE "",
     self |-> [self EXCEPT !.data = [k \in DOMAIN self.data \cup { key } |->
                                        IF k = key THEN value ELSE self.data[k]]]]

\* InfectionDataset.__setitem__: whether it raised, and the dataset after it
setitem(self, key, value) ==
    IF Len(value) # dataset_len(self)
    THEN [raised |-> TRUE, exc |-> "ValueError", self |-> self]
    ELSE [raised |-> FALSE, exc |-> "",
          self |-> [self EXCEPT !.data = [k \in DOMAIN self.data \cup { key } |->
                                            IF k = key THEN value ELSE self.data[k]]]]

\* The elements of array whose date is inside the interval, in their order
RECURSIVE Inside(_, _, _)
Inside(array, dts, interval) ==
    IF array = <<>> THEN <<>>
    ELSE (IF Contains(interval, Head(dts)) THEN <<Head(array)>> ELSE <<>>)
            \o Inside(Tail(array), Tail(dts), interval)

(***************************************************************************)
(* InfectionDataset.get_data hands numpy.where a generator expression, not *)
(* an array.  numpy wraps the generator in a 0-dimensional object array,   *)
(* which is true whatever the generator would yield: the numpy releases    *)
(* that still take the nonzero of a 0-dimensional array give the index 0,  *)
(* the later ones raise ValueError.  self[stat][indices] then is the first *)
(* element alone, or IndexError on an empty array.  The dates are never    *)
(* compared with the interval.                                             *)
(***************************************************************************)
where_generator == { [raised |-> FALSE, indices |-> <<1>>], [raised |-> TRUE, indices |-> <<>>] }

\* InfectionDataset.get_data, numpy.where having done w
get_data_with(w, self, stat, interval) ==
    IF w.raised THEN DsRaises("ValueError")
    ELSE IF stat \notin DOMAIN self.data THEN DsRaises("KeyError")
    ELSE IF Len(self.data[stat]) = 0 THEN DsRaises("IndexError")
    ELSE DsReturns(<<self.data[stat][1]>>)

\* InfectionDataset.get_data: the outcomes the numpy at hand can give
get_data(self, stat, interval) ==
    { get_data_with(w, self, stat, interval) : w \in where_generator }

\* ------------------------------------------------------ the published tables
(***************************************************************************)
(* The remote repository publishes three tables, one per tier, each as a   *)
(* full history and as one snapshot per day from the first day of          *)
(* publication on.  A row of a table has its date, the name of its place   *)
(* as the table of its tier writes it, and a number in each column of      *)
(* statistics, told apart here by the row and the column it stands in.     *)
(***************************************************************************)
\* The tables have 0..MaxTableRows rows.
MaxTableRows == 2

PublishedPlaces == { <<"Roma">>, <<"Valle d'Aosta">> }
TableRows == [data : RowDates, place : PublishedPlaces]
Webs == [first : { 0, 1 }, rows : SeqsUpTo(TableRows, MaxTableRows)]

\* The columns of each table
TableColumns(table) ==
    CASE table = "dati-andamento-nazionale" ->
            { "data", "stato", "tamponi", "dimessi_guariti", "note" }
      [] table = "dati-regioni" ->
            { "data", "stato", "denominazione_regione", "tamponi", "dimessi_guariti", "note" }
      [] table = "dati-province" ->
            { "data", "stato", "denominazione_regione", "denominazione_provincia",
              "totale_casi", "note" }

\* The number in column stat of the row that is the id-th of its table
Cell(stat, id) ==
    10 * id + (CASE stat = "tamponi" -> 1 [] stat = "dimessi_guariti" -> 2 [] OTHER -> 3)

\* pd.read_csv(url, ...): the table at the url, or HTTPError when the
\* repository has no such file
download_csv_data(web, url) ==
    IF url.dated /\ url.day < web.first
    THEN DsRaises("HTTPError")
    ELSE LET numbered == [i \in 1..Len(web.rows) |->
                            [data |-> web.rows[i].data, place |-> web.rows[i].place, id |-> i]]
         IN  DsReturns([columns |-> TableColumns(url.table),
                        rows |-> IF url.dated
                                 THEN SelectSeq(numbered, LAMBDA r : r.data.day = url.day)
                                 ELSE numbered])

\* get_data_url: the table and, for a dated snapshot, its day
get_data_url(location, interval) ==
    IF location.level \notin { "stato", "regione", "provincia" }
    THEN DsRaises("ValueError")
    ELSE DsReturns([table |-> CASE location.level = "stato" -> "dati-andamento-nazionale"
                               [] location.level = "regione" -> "dati-regioni"
                               [] location.level = "provincia" -> "dati-province",
                    dated |-> is_single_day(interval),
                    day |-> IF is_single_day(interval) THEN interval.start.day ELSE -1])

\* str.title() on the atoms of the model: every run of letters is capitalised,
\* the one after an apostrophe too.
Title(atom) ==
    CASE atom = "italia" -> "Italia"
      [] atom = "lazio" -> "Lazio"
      [] atom = "roma" -> "Roma"
      [] atom = "valle d'aosta" -> "Valle D'Aosta"
      [] OTHER -> atom

\* Location.__str__
Location_str(location) == [k \in 1..Len(location.name) |-> Title(location.name[k])]

\* The tail of InfectionDataset.download: the arrays of the rows kept, and the
\* dataset made of them
download_arrays(rows, available_stats, location, interval) ==
    InfectionDataset(location, interval,
                     [k \in { "data" } \cup available_stats |->
                        [i \in 1..Len(rows) |->
                            IF k = "data" THEN rows[i].data ELSE Cell(k, rows[i].id)]])

\* The middle of InfectionDataset.download: the dataframe filtered by date and
\* by location
download_filter(dataframe, location, interval) ==
    IF dataframe.raised THEN dataframe
    ELSE download_arrays(
            SelectSeq(dataframe.value.rows,
                      LAMBDA r : /\ Contains(interval, r.data)
                                 /\ (location.level \in { "regione", "provincia" } =>
                                        r.place = Location_str(location))),
            dataframe.value.columns \cap stats, location, interval)

\* The head of InfectionDataset.download: the dataframe at the url
download_from(url, web, location, interval) ==
    IF url.raised THEN url
    ELSE download_filter(download_csv_data(web, url.value), location, interval)

\* InfectionDataset.download
download(web, location, interval) ==
    download_from(get_data_url(location, interval), web, location, interval)

\* sorted(dataset.stats)
StatOrder == <<"dimessi_guariti", "tamponi", "totale_casi">>
sorted(S) == SelectSeq(StatOrder, LAMBDA s : s \in S)

\* The loop of get_report: the exception of the first get_data(...)[0] that
\* raises, or the report with a line for each statistic
report_lines(names, numbers, location, date) ==
    IF \E i \in 1..Len(names) : numbers[i].raised
    THEN numbers[CHOOSE i \in 1..Len(names) :
                    /\ numbers[i].raised
                    /\ \A j \in 1..(i - 1) : ~numbers[j].raised]
    ELSE DsReturns([t |-> "report", location |-> Location_str(location), date |-> date,
                    lines |-> [i \in 1..Len(names) |->
                                 [stat |-> names[i], number |-> numbers[i].value[1]]]])

\* get_report after the download, numpy.where doing w
report_of(w, dataset, location, date, dummy_interval) ==
    IF dataset.raised /\ dataset.exc = "HTTPError"
    THEN DsReturns([t |-> "no data", location |-> Location_str(location), date |-> date])
    ELSE IF dataset.raised THEN dataset
    ELSE report_lines(sorted(dataset_stats(dataset.value)),
                      [i \in 1..Cardinality(dataset_stats(dataset.value)) |->
                          get_data_with(w, dataset.value,
                                        sorted(dataset_stats(dataset.value))[i],
                                        dummy_interval)],
                      location, date)

\* get_report, numpy.where doing w: the report, the message that there are no
\* data, or the exception that escapes
get_report_with(w, web, location, date) ==
    report_of(w, download(web, location, Interval(date, date)), location, date,
              Interval(date, date))

\* get_report: the outcomes the numpy at hand can give
get_report(web, location, date) ==
    { get_report_with(w, web, location, date) : w \in where_generator }

\* A mistake plot_trend could make: the KeyError carries every known statistic.
plot_dataset_known_stats(dataset, stat, location) ==
    IF dataset.raised THEN dataset
    ELSE IF stat \in dataset_stats(dataset.value)
    THEN DsReturns([t |-> "plot", dates |-> dates(dataset.value),
                    values |-> dataset.value.data[stat],
                    location |-> Location_str(location), stat |-> stat])
    ELSE [DsRaises("KeyError") EXCEPT !.payload = stats]

\* plot_trend after the download: the plot of the dates and values, or the
\* exception
plot_dataset(dataset, stat, location) ==
    IF dataset.raised THEN dataset
    ELSE IF stat \in dataset_stats(dataset.value)
    THEN DsReturns([t |-> "plot", dates |-> dates(dataset.value),
                    values |-> dataset.value.data[stat],
                    location |-> Location_str(location), stat |-> stat])
    ELSE [DsRaises("KeyError") EXCEPT !.payload = dataset_stats(dataset.value)]

\* plot_trend
plot_trend(web, stat, location, interval) ==
    plot_dataset(download(web, location, interval), stat, location)

\* ------------------------------------------------ the dataset state machine
VARIABLES
    ds,         \* the dataset: whether construction was tried, whether it gave
                \* one, and the dataset
    dsop        \* the last call on it: its arguments and what it did

NoDataset ==
    [t |-> "InfectionDataset", location |-> None, interval |-> None, data |-> <<>>]
NoDs == [tried |-> FALSE, made |-> FALSE, self |-> NoDataset]
NoDsOp ==
    [op |-> "", data |-> <<>>, key |-> "", array |-> <<>>, interval |-> None,
     out |-> DsReturns(None)]

\* The dicts the constructor is given: any of the keys, each with any array.
DateArrays == SeqsUpTo(RowDates, MaxRows)
ValueArrays == SeqsUpTo(RowValues, MaxRows)
ArraysOf(key) == IF key = "data" THEN DateArrays ELSE ValueArrays
DataDicts ==
    UNION { { [k \in K |-> IF k = "data" THEN d ELSE v] : d \in DateArrays, v \in ValueArrays } :
            K \in SUBSET { "data", "tamponi" } }
QueryIntervals == { Interval(a, b) : a \in RowDates, b \in RowDates }

\* ----------------------------------------------- the location state machine
VARIABLES
    loc         \* the last call on the location model: its arguments and what
                \* it gave

\* The names the registries are made of, and the registries: any country, any
\* regions and provinces, disjoint or not, and any aliases.
Names == { <<"italia">>, <<"lazio">>, <<"roma">> }
AliasTables == UNION { [K -> Names] : K \in SUBSET Names }
Registries ==
    { [country |-> c, regions |-> r, provinces |-> p, location_aliases |-> a] :
        c \in Names, r \in SUBSET Names, p \in SUBSET Names,
        a \in { t \in AliasTables : Cardinality(DOMAIN t) <= 1 } }

NoLoc ==
    [op |-> "", aliases |-> <<>>, name |-> <<>>, once |-> <<>>, twice |-> <<>>,
     registry |-> Registry, parser |-> NewInstance("LocationParser"), raised |-> FALSE]

\* -------------------------------------------------------- the state machine
VARIABLES
    ivArgs,     \* the operands of the Interval(...) call, once made
    iv,         \* the Interval it built
    probe,      \* the last `date in interval` test: its operand and its answer
    single      \* the last is_single_day() call: whether made, and its answer

NoDate == [day |-> -1, sec |-> 0, us |-> 0]
NoArgs == [made |-> FALSE, date_start |-> NoDate, date_end |-> NoDate]
NoInterval == [t |-> "interval", start |-> NoDate, end |-> NoDate]
NoProbe == [made |-> FALSE, date |-> NoDate, inside |-> FALSE]
NoSingle == [made |-> FALSE, value |-> FALSE]

\* ------------------------------------------------ the request state machine
VARIABLES
    remote,     \* the remote repository: the first day it has a snapshot of, and
                \* the rows of its tables
    req         \* the request followed: the call, its arguments and what it did

NoCall == [made |-> FALSE, out |-> DsReturns(None)]
Called(out) == [made |-> TRUE, out |-> out]

\* What a handler did: the message or photo it sent, or the exception that
\* escaped it.
Sent(message) == [sent |-> message, escaped |-> ""]
Escaped(exc) == [sent |-> None, escaped |-> exc]

NoReq ==
    [op |-> "", request |-> <<>>, stat |-> "", location |-> None,
     date_start |-> NoDate, date_end |-> NoDate,
     url |-> NoCall, fetched |-> NoCall, dataset |-> NoCall, out |-> NoCall,
     parser |-> NewInstance("Parser"), did |-> Sent(None)]

\* The url, the fetched table and the dataset of a request for the location
\* and the interval, as far as the request gets: what the calls of
\* InfectionDataset.download gave, kept for the record of the request.
StagesFrom(url, fetched, dataset) ==
    [url |-> Called(url),
     fetched |-> IF url.raised THEN NoCall ELSE Called(fetched),
     dataset |-> IF url.raised \/ fetched.raised THEN NoCall ELSE Called(dataset)]
Fetched(url, web) ==
    IF url.raised THEN url ELSE download_csv_data(web, url.value)
Stages(web, location, interval) ==
    StagesFrom(get_data_url(location, interval),
               Fetched(get_data_url(location, interval), web),
               download(web, location, interval))
Staged(r, stages) ==
    [r EXCEPT !.url = stages.url, !.fetched = stages.fetched, !.dataset = stages.dataset]

\* cb_report_request once the parser has succeeded: what get_report gave is
\* sent, or its exception escapes
report_request_parsed(self, web, location, date) ==
    { Staged([NoReq EXCEPT !.parser = self, !.location = location,
                           !.date_start = date, !.date_end = date,
                           !.out = Called(report),
                           !.did = IF report.raised THEN Escaped(report.exc)
                                   ELSE Sent(report.value)],
             Stages(web, location, Interval(date, date))) :
      report \in get_report(web, location, date) }

\* cb_report_request after parser.parse(request)
report_request_done(done, web) ==
    IF done.raised
    THEN { [NoReq EXCEPT !.parser = done.self, !.did = Escaped("ParserError")] }
    ELSE IF done.self.status = TRUE
    THEN report_request_parsed(done.self, web, result(done.self).value.items[1],
                               result(done.self).value.items[2].dt)
    ELSE { [NoReq EXCEPT !.parser = done.self, !.did = Sent(done.self.error)] }

\* handlers.cb_report_request on a request its filter lets through: what it
\* did, for each outcome get_report can have
cb_report_request(e, web, request) ==
    report_request_done(parse_with(NewInstance("ReportRequestParser"), request,
                                   Converted[e]["ReportRequestParser"][request]), web)

\* What cb_trends_request does with what plot_trend did
trends_request_plotted(graph, stat, location) ==
    IF graph.raised /\ graph.exc = "KeyError"
    THEN Sent([t |-> "no statistic", stat |-> stat, location |-> Location_str(location),
               available_stats |-> graph.payload])
    ELSE IF graph.raised THEN Escaped(graph.exc)
    ELSE Sent([t |-> "photo", graph |-> graph.value])

\* cb_trends_request once the parser has succeeded
trends_request_parsed(self, web, stat, location, interval, graph) ==
    Staged([NoReq EXCEPT !.parser = self, !.stat = stat, !.location = location,
                         !.date_start = interval.start, !.date_end = interval.end,
                         !.out = Called(graph),
                         !.did = trends_request_plotted(graph, stat, location)],
           Stages(web, location, interval))

\* cb_trends_request after parser.parse(request)
trends_request_done(done, web) ==
    IF done.raised
    THEN [NoReq EXCEPT !.parser = done.self, !.did = Escaped("ParserError")]
    ELSE IF done.self.status = TRUE
    THEN trends_request_parsed(done.self, web,
                               result(done.self).value.items[1].s[1],
                               result(done.self).value.items[2],
                               result(done.self).value.items[3],
                               plot_trend(web, result(done.self).value.items[1].s[1],
                                          result(done.self).value.items[2],
                                          result(done.self).value.items[3]))
    ELSE [NoReq EXCEPT !.parser = done.self, !.did = Sent(done.self.error)]

\* handlers.cb_trends_request on a request its filter lets through
cb_trends_request(e, web, request) ==
    trends_request_done(parse_with(NewInstance("TrendRequestParser"), request,
                                   Converted[e]["TrendRequestParser"][request]), web)

\* The messages the filters of the conversation hand to the two handlers:
\* those that match constants.report_request and constants.trend_request.
ReportRequests ==
    { request \in Inputs("ReportRequestParser") : split("ReportRequestParser", request).ok }
TrendRequests ==
    { request \in Inputs("TrendRequestParser") : split("TrendRequestParser", request).ok }

\* The arguments of the calls made without a parser
RequestLocations ==
    { Location(<<"italia">>, "stato"), Location(<<"valle d'aosta">>, "regione"),
      Location(<<"roma">>, "provincia"), Location(<<"roma">>, "comune") }
RequestDates == { d \in DateTimes : d.sec = 0 }

pvars == <<env, parser, ret, read>>
ivars == <<ivArgs, iv, probe, single>>
dvars == <<ds, dsop>>
lvars == <<loc>>
rvars == <<remote, req>>
vars == <<env, parser, ret, read, ivArgs, iv, probe, single, ds, dsop, loc, remote, req>>

\* A parser of any class has just been constructed, and no Interval yet.
Init ==
    /\ env \in Environments
    /\ parser \in { NewInstance(cls) : cls \in Classes }
    /\ ret = NoRet
    /\ read = NoRead
    /\ ivArgs = NoArgs
    /\ iv = NoInterval
    /\ probe = NoProbe
    /\ single = NoSingle
    /\ ds = NoDs
    /\ dsop = NoDsOp
    /\ loc = NoLoc
    /\ remote = CHOOSE w \in Webs : w.first = 0 /\ w.rows = <<>>
    /\ req = NoReq

\* parser.parse(string)
ParseCall ==
    /\ \E string \in Inputs(parser.cls) :
        LET done == parse_with(parser, string, Converted[env][parser.cls][string])
        IN  /\ parser' = done.self
            /\ ret' = [called |-> TRUE, string |-> string, returned |-> done.returned,
                       raised |-> done.raised, conv |-> done.conv]
    /\ read' = NoRead
    /\ UNCHANGED env
    /\ UNCHANGED ivars
    /\ UNCHANGED dvars
    /\ UNCHANGED lvars
    /\ UNCHANGED rvars

\* parser.result
ReadResult ==
    /\ read' = [made |-> TRUE, raised |-> result(parser).raised,
                value |-> result(parser).value]
    /\ UNCHANGED <<env, parser, ret>>
    /\ UNCHANGED ivars
    /\ UNCHANGED dvars
    /\ UNCHANGED lvars
    /\ UNCHANGED rvars

\* Interval(date_start, date_end); an Interval is never built again or changed.
NewInterval ==
    /\ ~ivArgs.made
    /\ \E a \in DateTimes, b \in DateTimes :
        /\ ivArgs' = [made |-> TRUE, date_start |-> a, date_end |-> b]
        /\ iv' = Interval(a, b)
    /\ UNCHANGED <<probe, single>>
    /\ UNCHANGED pvars
    /\ UNCHANGED dvars
    /\ UNCHANGED lvars
    /\ UNCHANGED rvars

\* date in interval
TestContains ==
    /\ ivArgs.made
    /\ \E x \in DateTimes :
        probe' = [made |-> TRUE, date |-> x, inside |-> Contains(iv, x)]
    /\ UNCHANGED <<ivArgs, iv, single>>
    /\ UNCHANGED pvars
    /\ UNCHANGED dvars
    /\ UNCHANGED lvars
    /\ UNCHANGED rvars

\* interval.is_single_day()
TestSingleDay ==
    /\ ivArgs.made
    /\ single' = [made |-> TRUE, value |-> is_single_day(iv)]
    /\ UNCHANGED <<ivArgs, iv, probe>>
    /\ UNCHANGED pvars
    /\ UNCHANGED dvars
    /\ UNCHANGED lvars
    /\ UNCHANGED rvars


\* InfectionDataset(location, interval, data); one dataset is followed.
NewDataset ==
    /\ ~ds.tried
    /\ \E data \in DataDicts :
        LET r == InfectionDataset(Location(country, "stato"), None, data)
        IN  /\ ds' = [tried |-> TRUE, made |-> ~r.raised,
                      self |-> IF r.raised THEN NoDataset ELSE r.value]
            /\ dsop' = [NoDsOp EXCEPT !.op = "init", !.data = data,
                                      !.out = IF r.raised THEN r ELSE DsReturns(None)]
    /\ UNCHANGED pvars
    /\ UNCHANGED ivars
    /\ UNCHANGED lvars
    /\ UNCHANGED rvars

\* dataset[key] = array
SetItem ==
    /\ ds.made
    /\ \E key \in { "data", "dimessi_guariti" } :
        \E array \in ArraysOf(key) :
            LET r == setitem(ds.self, key, array)
            IN  /\ ds' = [ds EXCEPT !.self = r.self]
                /\ dsop' = [NoDsOp EXCEPT !.op = "setitem", !.key = key, !.array = array,
                                          !.out = IF r.raised THEN DsRaises(r.exc)
                                                  ELSE DsReturns(None)]
    /\ UNCHANGED pvars
    /\ UNCHANGED ivars
    /\ UNCHANGED lvars
    /\ UNCHANGED rvars

\* dataset.get_data(stat, interval)
GetData ==
    /\ ds.made
    /\ \E stat \in dataset_stats(ds.self), interval \in QueryIntervals :
        \E r \in get_data(ds.self, stat, interval) :
            dsop' = [NoDsOp EXCEPT !.op = "get_data", !.key = stat, !.interval = interval,
                                  !.out = r]
    /\ UNCHANGED ds
    /\ UNCHANGED pvars
    /\ UNCHANGED ivars
    /\ UNCHANGED lvars
    /\ UNCHANGED rvars

\* Location.resolve_alias(name, aliases), and again on what it gave; the
\* location model keeps no state, so one call is followed.
ResolveAlias ==
    /\ loc.op = ""
    /\ \E aliases \in AliasTables, name \in Names :
        LET once == resolve_alias(name, aliases)
        IN  loc' = [NoLoc EXCEPT !.op = "resolve_alias", !.aliases = aliases, !.name = name,
                                !.once = once, !.twice = resolve_alias(once, aliases)]
    /\ UNCHANGED pvars
    /\ UNCHANGED ivars
    /\ UNCHANGED dvars
    /\ UNCHANGED rvars

\* LocationParser().parse(name), the process having loaded any registry
ParseLocation ==
    /\ loc.op = ""
    /\ \E registry \in Registries, name \in Names :
        LET done == parse_with(NewInstance("LocationParser"), name,
                               LocationParser_convert_in(registry, name))
        IN  loc' = [NoLoc EXCEPT !.op = "parse", !.registry = registry, !.name = name,
                                !.parser = done.self, !.raised = done.raised]
    /\ UNCHANGED pvars
    /\ UNCHANGED ivars
    /\ UNCHANGED dvars
    /\ UNCHANGED rvars

\* get_data_url(location, Interval(date_start, date_end)).  A request builds
\* what it needs from scratch and leaves nothing behind, so one is followed.
GetDataUrl ==
    /\ req.op = ""
    /\ \E location \in RequestLocations, a \in RequestDates, b \in RequestDates :
        req' = [NoReq EXCEPT !.op = "get_data_url", !.location = location,
                             !.date_start = a, !.date_end = b,
                             !.url = Called(get_data_url(location, Interval(a, b)))]
    /\ UNCHANGED remote
    /\ UNCHANGED pvars
    /\ UNCHANGED ivars
    /\ UNCHANGED dvars
    /\ UNCHANGED lvars

\* InfectionDataset.download(location, Interval(date_start, date_end))
Download ==
    /\ req.op = ""
    /\ \E location \in RequestLocations, a \in RequestDates, b \in RequestDates :
        req' = Staged([NoReq EXCEPT !.op = "download", !.location = location,
                                    !.date_start = a, !.date_end = b,
                                    !.out = Called(download(remote, location,
                                                            Interval(a, b)))],
                      Stages(remote, location, Interval(a, b)))
    /\ UNCHANGED remote
    /\ UNCHANGED pvars
    /\ UNCHANGED ivars
    /\ UNCHANGED dvars
    /\ UNCHANGED lvars

\* get_report(location, date)
GetReport ==
    /\ req.op = ""
    /\ \E location \in RequestLocations, date \in RequestDates :
        \E report \in get_report(remote, location, date) :
            req' = Staged([NoReq EXCEPT !.op = "get_report", !.location = location,
                                        !.date_start = date, !.date_end = date,
                                        !.out = Called(report)],
                          Stages(remote, location, Interval(date, date)))
    /\ UNCHANGED remote
    /\ UNCHANGED pvars
    /\ UNCHANGED ivars
    /\ UNCHANGED dvars
    /\ UNCHANGED lvars

\* plot_trend(stat, location, Interval(date_start, date_end))
PlotTrend ==
    /\ req.op = ""
    /\ \E stat \in stats, location \in RequestLocations,
          a \in RequestDates, b \in RequestDates :
        req' = Staged([NoReq EXCEPT !.op = "plot_trend", !.stat = stat,
                                    !.location = location,
                                    !.date_start = a, !.date_end = b,
                                    !.out = Called(plot_trend(remote, stat, location,
                                                              Interval(a, b)))],
                      Stages(remote, location, Interval(a, b)))
    /\ UNCHANGED remote
    /\ UNCHANGED pvars
    /\ UNCHANGED ivars
    /\ UNCHANGED dvars
    /\ UNCHANGED lvars

\* A message that matches constants.report_request arrives in the REPORTS
\* state.
ReportRequest ==
    /\ req.op = ""
    /\ \E request \in ReportRequests :
        \E r \in cb_report_request(env, remote, request) :
            req' = [r EXCEPT !.op = "cb_report_request", !.request = request]
    /\ UNCHANGED remote
    /\ UNCHANGED pvars
    /\ UNCHANGED ivars
    /\ UNCHANGED dvars
    /\ UNCHANGED lvars

\* A message that matches constants.trend_request arrives in the TRENDS state.
TrendRequest ==
    /\ req.op = ""
    /\ \E request \in TrendRequests :
        req' = [cb_trends_request(env, remote, request) EXCEPT
                    !.op = "cb_trends_request", !.request = request]
    /\ UNCHANGED remote
    /\ UNCHANGED pvars
    /\ UNCHANGED ivars
    /\ UNCHANGED dvars
    /\ UNCHANGED lvars

Next ==
    \/ ParseCall \/ ReadResult
    \/ NewInterval \/ TestContains \/ TestSingleDay
    \/ NewDataset \/ SetItem \/ GetData
    \/ ResolveAlias \/ ParseLocation
    \/ GetDataUrl \/ Download \/ GetReport \/ PlotTrend
    \/ ReportRequest \/ TrendRequest

Spec == Init /\ [][Next]_vars

\* The parsers alone, and the intervals alone: the two share no state.
ParserNext == ParseCall \/ ReadResult

ParserSpec == Init /\ [][ParserNext]_vars

\* No parser is in use.
IntervalInit ==
    /\ env = CHOOSE e \in Environments : TRUE
    /\ parser = NewInstance("Parser")
    /\ ret = NoRet
    /\ read = NoRead
    /\ ivArgs = NoArgs
    /\ iv = NoInterval
    /\ probe = NoProbe
    /\ single = NoSingle
    /\ ds = NoDs
    /\ dsop = NoDsOp
    /\ loc = NoLoc
    /\ remote = CHOOSE w \in Webs : w.first = 0 /\ w.rows = <<>>
    /\ req = NoReq

IntervalNext == NewInterval \/ TestContains \/ TestSingleDay

IntervalSpec == IntervalInit /\ [][IntervalNext]_vars

\* The datasets alone: no parser is in use and no Interval is followed.
DatasetInit ==
    /\ env = CHOOSE e \in Environments : TRUE
    /\ parser = NewInstance("Parser")
    /\ ret = NoRet
    /\ read = NoRead
    /\ ivArgs = NoArgs
    /\ iv = NoInterval
    /\ probe = NoProbe
    /\ single = NoSingle
    /\ ds = NoDs
    /\ dsop = NoDsOp
    /\ loc = NoLoc
    /\ remote = CHOOSE w \in Webs : w.first = 0 /\ w.rows = <<>>
    /\ req = NoReq

DatasetNext == NewDataset \/ SetItem \/ GetData

DatasetSpec == DatasetInit /\ [][DatasetNext]_vars


\* The location model alone.
LocationInit ==
    /\ env = CHOOSE e \in Environments : TRUE
    /\ parser = NewInstance("Parser")
    /\ ret = NoRet
    /\ read = NoRead
    /\ ivArgs = NoArgs
    /\ iv = NoInterval
    /\ probe = NoProbe
    /\ single = NoSingle
    /\ ds = NoDs
    /\ dsop = NoDsOp
    /\ loc = NoLoc
    /\ remote = CHOOSE w \in Webs : w.first = 0 /\ w.rows = <<>>
    /\ req = NoReq

LocationNext == ResolveAlias \/ ParseLocation

LocationSpec == LocationInit /\ [][LocationNext]_vars

\* The requests alone, on any state of the remote repository.
RequestInit ==
    /\ env \in { e \in Environments : e.now.sec = 0 }
    /\ parser = NewInstance("Parser")
    /\ ret = NoRet
    /\ read = NoRead
    /\ ivArgs = NoArgs
    /\ iv = NoInterval
    /\ probe = NoProbe
    /\ single = NoSingle
    /\ ds = NoDs
    /\ dsop = NoDsOp
    /\ loc = NoLoc
    /\ remote \in Webs
    /\ req = NoReq

RequestNext ==
    \/ GetDataUrl \/ Download \/ GetReport \/ PlotTrend
    \/ ReportRequest \/ TrendRequest

RequestSpec == RequestInit /\ [][RequestNext]_vars

\* =================================================================== claims

\* The parse call just made, on a parser of a composed class.
ComposedCall == ret.called /\ parser.cls \in ComposedClasses

\* The entries of the sub-parsers the parser itself invoked, without those its
\* sub-parsers invoked in turn.
TopCalls(calls) == SelectSeq(calls, LAMBDA c : Len(c.path) = 1)

\* What the sub-parser of a logged invocation did on its field.
Invocation(c) == parse(env, NewInstance(c.cls), c.field)

\* C1: after parse(text), if convert(text) returned v then parse returned True,
\* status is True and result yields v; if convert raised ConversionError then
\* parse returned False, status is False and error is the message
\* make_error_message builds for that failure and that text.
C1_ParseContract ==
    ret.called =>
        /\ ret.conv = convert(env, parser.cls, ret.string)
        /\ ret.conv.kind = "value" =>
                /\ ~ret.raised
                /\ ret.returned = TRUE
                /\ parser.status = TRUE
                /\ result(parser) = [raised |-> FALSE, value |-> ret.conv.value]
        /\ ret.conv.kind = "ConversionError" =>
                /\ ~ret.raised
                /\ ret.returned = FALSE
                /\ parser.status = FALSE
                /\ parser.error = make_error_message(parser.cls, ret.conv.args, ret.string)

\* A report request for an unknown place has failed with the location message.
C1_Witness ==
    /\ ret.called
    /\ parser.cls = "ReportRequestParser"
    /\ ret.conv.kind = "ConversionError"
    /\ ret.returned = FALSE
    /\ parser.error = Message("location", <<"atlantide">>)

\* C2: reading result gives a value only if the most recent parse call
\* succeeded, and then the value of that call; in every other state (never
\* parsed, the last parse failed, the last parse raised) it raises ParserError.
C2_ResultGuarded ==
    read.made =>
        IF ret.called /\ ret.conv.kind = "value"
        THEN ~read.raised /\ read.value = ret.conv.value
        ELSE read.raised /\ read.value = None

\* result was read and raised ParserError while the value of an earlier,
\* successful parse was still stored.
C2_Witness ==
    /\ read.made
    /\ read.raised
    /\ ret.called
    /\ ret.conv.kind # "value"
    /\ parser.result # None

\* C3, as the specification has it: the stored error reflects only the most
\* recent parse call, so after a successful parse no message of an earlier
\* failure is stored.
C3_ErrorOfLastCallOnly ==
    (ret.called /\ ret.conv.kind = "value") => parser.error = None

\* C3, amended: a parse call sets status to whether it succeeded; a success
\* stores its value and leaves error as it was; a failure stores its error (the
\* rendered message, or the arguments of the exception) and leaves the stored
\* value as it was.
C3_LastCallAmended ==
    [][ (~read'.made /\ ret'.called) =>
            /\ parser'.status = (ret'.conv.kind = "value")
            /\ ret'.conv.kind = "value" =>
                    /\ parser'.result = ret'.conv.value
                    /\ parser'.error = parser.error
            /\ ret'.conv.kind = "ConversionError" =>
                    /\ parser'.error =
                            make_error_message(parser.cls, ret'.conv.args, ret'.string)
                    /\ parser'.result = parser.result
            /\ ret'.conv.kind = "Exception" =>
                    /\ parser'.error = ret'.conv.args
                    /\ parser'.result = parser.result ]_vars

\* The last parse succeeded and the message of an earlier failure is still stored.
C3_Witness ==
    /\ ret.called
    /\ ret.conv.kind = "value"
    /\ parser.status = TRUE
    /\ parser.error # None
    /\ parser.error.t = "message"

\* C4: if convert raises anything but ConversionError, parse raises ParserError
\* and leaves status False; so it does when the exception comes from a
\* sub-parser, whose ParserError escapes the outer parse too.
C4_FrameworkError ==
    ret.called =>
        /\ ret.conv.kind = "Exception" => (ret.raised /\ parser.status = FALSE)
        /\ \A k \in 1..Len(ret.conv.calls) :
                Invocation(ret.conv.calls[k]).conv.kind = "Exception" =>
                    /\ Invocation(ret.conv.calls[k]).raised
                    /\ ret.raised
                    /\ parser.status = FALSE

\* A trend request whose interval field IntervalParser.split cannot unpack: the
\* ValueError of the sub-parser has escaped the parse of the request.
C4_Witness ==
    /\ ret.called
    /\ parser.cls = "TrendRequestParser"
    /\ ret.raised
    /\ Len(ret.conv.calls) = 3
    /\ ret.conv.calls[3].cls = "IntervalParser"
    /\ Invocation(ret.conv.calls[3]).conv.args.exc = "ValueError"

\* split gave a number of fields that is not the number of sub-parsers.
FieldCountMismatch ==
    /\ ComposedCall
    /\ split(parser.cls, ret.string).ok
    /\ Len(split(parser.cls, ret.string).fields) # Len(subparsers(parser.cls))

\* C5, as the specification has it: a wrong number of fields is a recognized
\* failure: no sub-parser is invoked, parse returns False with an error message
\* and raises nothing.
C5_FieldCountRecognized ==
    FieldCountMismatch =>
        /\ ret.conv.calls = <<>>
        /\ ret.conv.kind = "ConversionError"
        /\ ~ret.raised
        /\ ret.returned = FALSE
        /\ parser.error.t = "message"

\* C5, amended: a wrong number of fields is a framework error: no sub-parser is
\* invoked, status is False, error holds the arguments of the field-count
\* ParserError, and parse raises ParserError.
C5_FieldCountEscalates ==
    FieldCountMismatch =>
        /\ ret.conv.calls = <<>>
        /\ ret.conv.kind = "Exception"
        /\ ret.raised
        /\ parser.status = FALSE
        /\ parser.error =
                [Exception("ParserError") EXCEPT
                    !.nfields = Len(split(parser.cls, ret.string).fields),
                    !.nparsers = Len(subparsers(parser.cls))]

\* Two fields were given to a parser of three sub-parsers.
C5_Witness ==
    /\ FieldCountMismatch
    /\ Len(subparsers(parser.cls)) = 3
    /\ Len(split(parser.cls, ret.string).fields) = 2
    /\ ret.raised

\* C6: the sub-parsers run in list order, each on its own field, and the run
\* stops at the first that fails: when sub-parser i is the first to fail, the
\* sub-parsers invoked are exactly 0..i, once each, those before i succeeded,
\* and none after i is invoked.
C6_ShortCircuit ==
    (ComposedCall /\ split(parser.cls, ret.string).ok /\ ~FieldCountMismatch) =>
        LET top == TopCalls(ret.conv.calls)
            fields == split(parser.cls, ret.string).fields
        IN  /\ Len(top) <= Len(fields)
            /\ \A k \in 1..Len(top) :
                    /\ top[k].path = <<k - 1>>
                    /\ top[k].cls = subparsers(parser.cls)[k]
                    /\ top[k].field = fields[k]
            /\ \A k \in 1..(Len(top) - 1) : Invocation(top[k]).returned = TRUE
            /\ ret.conv.kind = "value" => Len(top) = Len(fields)
            /\ ret.conv.kind = "ConversionError" =>
                    /\ Len(top) = ret.conv.args.i + 1
                    /\ Invocation(top[Len(top)]).returned = FALSE
                    /\ ~Invocation(top[Len(top)]).raised

\* The second of three sub-parsers failed: two were invoked, the third was not.
C6_Witness ==
    /\ ComposedCall
    /\ Len(subparsers(parser.cls)) = 3
    /\ ret.conv.kind = "ConversionError"
    /\ ret.conv.args.i = 1
    /\ Len(TopCalls(ret.conv.calls)) = 2

\* C7: when a sub-parser fails with a recognized failure, the error of the
\* composed parser is the message that sub-parser rendered, unchanged, also
\* through nesting: a trend request whose interval field holds a date that does
\* not resolve reports the DateParser message for that date substring.
C7_SubparserMessage ==
    (ComposedCall /\ ret.conv.kind = "ConversionError") =>
        LET top == TopCalls(ret.conv.calls)
            failed == top[Len(top)]
            leaf == ret.conv.calls[Len(ret.conv.calls)]
        IN  /\ parser.error = Invocation(failed).self.error
            /\ parser.error = ret.conv.args.error
            /\ leaf.cls \in SimpleClasses
            /\ parser.error = Invocation(leaf).self.error
            /\ parser.error.t = "message"
            /\ leaf.cls = "DateParser" => parser.error = Message("date", leaf.field)
            /\ (parser.cls = "TrendRequestParser" /\ ret.conv.args.i = 2) =>
                    /\ leaf.cls = "DateParser"
                    /\ Len(leaf.path) = 2

\* A trend request whose interval starts with a date that does not resolve
\* reports the DateParser message for it.
C7_Witness ==
    /\ ret.called
    /\ parser.cls = "TrendRequestParser"
    /\ ret.conv.kind = "ConversionError"
    /\ ret.conv.args.i = 2
    /\ parser.error = Message("date", <<"boh">>)

\* C8: for d1 <= d2 with any time of day, Interval(d1, d2) contains d1 and d2,
\* and contains exactly the datetimes between its start and its end, both
\* included.
C8_ContainsOperands ==
    /\ (ivArgs.made /\ DtLE(ivArgs.date_start, ivArgs.date_end)) =>
            /\ Contains(iv, ivArgs.date_start)
            /\ Contains(iv, ivArgs.date_end)
    /\ probe.made =>
            (probe.inside <=> (DtLE(iv.start, probe.date) /\ DtLE(probe.date, iv.end)))

\* C9: Interval(d1, d1).is_single_day() is true, and Interval(d1, d2) is not a
\* single day when d2 is later than d1 by a day or more.
C9_SingleDay ==
    single.made =>
        /\ ivArgs.date_start = ivArgs.date_end => single.value = TRUE
        /\ DtLE(DtAdd(ivArgs.date_start, timedelta(1, 0)), ivArgs.date_end) =>
                single.value = FALSE

\* Both cases of is_single_day are seen on operands that are not midnights: it
\* was asked of an Interval of an instant with itself and answered true.
C9_Witness ==
    /\ single.made
    /\ ivArgs.date_start = ivArgs.date_end
    /\ ivArgs.date_start.sec > 0
    /\ single.value = TRUE

\* C10: every Interval that can be constructed, from any pair of dates in any
\* order, has start <= end: its length is never negative.
C10_StartBeforeEnd ==
    ivArgs.made =>
        /\ DtLE(iv.start, iv.end)
        /\ ~TdLT(length(iv), timedelta(0, 0))

\* Every array of the dataset is as long as its array of dates.
Aligned(self) == \A k \in DOMAIN self.data : Len(self.data[k]) = Len(self.data["data"])

\* C11: constructing a dataset raises ValueError and gives no dataset when the
\* dict has no 'data' key or some array is not as long as the array of dates;
\* otherwise it succeeds and the dataset holds the dict it was given, every
\* array unchanged.
C11_ConstructionChecked ==
    dsop.op = "init" =>
        LET data == dsop.data
            bad  == \/ "data" \notin DOMAIN data
                    \/ \E k \in DOMAIN data : Len(data[k]) # Len(data["data"])
        IN  IF bad
            THEN dsop.out.raised /\ dsop.out.exc = "ValueError" /\ ~ds.made
            ELSE ~dsop.out.raised /\ ds.made /\ ds.self.data = data

\* A dict with its dates and a statistic of another length was refused.
C11_Witness ==
    /\ dsop.op = "init"
    /\ DOMAIN dsop.data = { "data", "tamponi" }
    /\ Len(dsop.data["tamponi"]) # Len(dsop.data["data"])
    /\ dsop.out.raised
    /\ ~ds.made

\* C12: after a successful construction and any assignments, every array of
\* the dataset is as long as the array of dates; an assignment of an array of
\* another length raises ValueError and leaves the dataset as it was, and any
\* other assignment stores the array under its key, the date key included.
C12_AssignmentKeepsAligned ==
    [][(ds'.made => Aligned(ds'.self))
       /\ (dsop'.op = "setitem" /\ <<ds, dsop>>' # <<ds, dsop>> =>
            IF Len(dsop'.array) # Len(ds.self.data["data"])
            THEN dsop'.out.raised /\ dsop'.out.exc = "ValueError" /\ ds' = ds
            ELSE /\ ~dsop'.out.raised
                 /\ DOMAIN ds'.self.data = DOMAIN ds.self.data \cup { dsop'.key }
                 /\ \A k \in DOMAIN ds'.self.data :
                        ds'.self.data[k] =
                            IF k = dsop'.key THEN dsop'.array ELSE ds.self.data[k])]_vars

\* An array of another length was refused after a statistic had been added by
\* an assignment.
C12_Witness ==
    /\ ds.made
    /\ dsop.op = "setitem"
    /\ dsop.out.raised
    /\ Len(dsop.array) # Len(ds.self.data["data"])
    /\ "dimessi_guariti" \in DOMAIN ds.self.data

\* C13: get_data(stat, interval) returns the values of the statistic whose
\* date is inside the interval, in their order, and the empty sequence when
\* no date is inside.
C13_GetDataFilters ==
    dsop.op = "get_data" =>
        /\ ~dsop.out.raised
        /\ dsop.out.value = Inside(ds.self.data[dsop.key], dates(ds.self), dsop.interval)

\* The names the alias table maps a name to: the standard names.
Targets(aliases) == { aliases[k] : k \in DOMAIN aliases }

SingleStep(aliases) ==
    \A k \in DOMAIN aliases :
        aliases[k] \in DOMAIN aliases => aliases[aliases[k]] = aliases[k]

C20_LocationPrecedence ==
    loc.op = "parse" =>
        LET r == loc.registry
            name == IF loc.name \in DOMAIN r.location_aliases
                    THEN r.location_aliases[loc.name] ELSE loc.name
            level == IF name = r.country THEN "stato"
                     ELSE IF name \in r.regions THEN "regione"
                     ELSE IF name \in r.provinces THEN "provincia"
                     ELSE ""
        IN  /\ ~loc.raised
            /\ IF level = ""
               THEN loc.parser.status = FALSE /\ loc.parser.error.t = "message"
               ELSE /\ loc.parser.status = TRUE
                    /\ loc.parser.result = [t |-> "Location", name |-> name, level |-> level]

\* An alias of a name that is both a region and a province was parsed, and it
\* is a region.
C20_Witness ==
    /\ loc.op = "parse"
    /\ loc.name \in DOMAIN loc.registry.location_aliases
    /\ loc.registry.location_aliases[loc.name] # loc.name
    /\ loc.registry.location_aliases[loc.name] \in loc.registry.regions \cap loc.registry.provinces
    /\ loc.registry.location_aliases[loc.name] # loc.registry.country
    /\ loc.parser.status = TRUE
    /\ loc.parser.result.level = "regione"

\* The constructor kept its operands in their places: start is the first
\* instant of date_start's day and end the last second of date_end's day.
OperandsInPlace ==
    /\ iv.start = [day |-> ivArgs.date_start.day, sec |-> 0, us |-> 0]
    /\ iv.end = [day |-> ivArgs.date_end.day, sec |-> SecondsPerDay - 1, us |-> 0]

\* C19 as stated: the constructor never reorders its operands, and whenever
\* date_start is later than date_end the interval is inverted and no date is
\* in it.
C19_LaterStartContainsNothing ==
    ivArgs.made =>
        /\ OperandsInPlace
        /\ (~DtLE(ivArgs.date_start, ivArgs.date_end) =>
                /\ ~DtLE(iv.start, iv.end)
                /\ \A x \in DateTimes : ~Contains(iv, x)
                /\ (probe.made => ~probe.inside))

\* C19, amended: the constructor never reorders its operands, and whenever
\* date_start is on a later calendar day than date_end the interval is
\* inverted and no date is in it; two instants of one day, the later given
\* first, give the interval of that day.
C19_LaterDayContainsNothing ==
    ivArgs.made =>
        /\ OperandsInPlace
        /\ (ivArgs.date_start.day > ivArgs.date_end.day =>
                /\ ~DtLE(iv.start, iv.end)
                /\ \A x \in DateTimes : ~Contains(iv, x)
                /\ (probe.made => ~probe.inside))
        /\ (ivArgs.date_start.day = ivArgs.date_end.day =>
                /\ DtLE(iv.start, iv.end)
                /\ \A x \in DateTimes : x.day = ivArgs.date_start.day /\ x.us = 0 =>
                                            Contains(iv, x))

\* A date between the operands was tested against an interval whose first
\* operand is on the later day, and it is not inside.
C19_Witness ==
    /\ ivArgs.made
    /\ ivArgs.date_start.day > ivArgs.date_end.day
    /\ probe.made
    /\ probe.date.day > ivArgs.date_end.day
    /\ probe.date.day < ivArgs.date_start.day
    /\ ~probe.inside

\* The request got as far as asking the repository for a file it does not have.
ResourceMissing ==
    req.fetched.made /\ req.fetched.out.raised /\ req.fetched.out.exc = "HTTPError"

\* C14: when the remote resource does not exist, neither the report request
\* nor the trend request lets the error escape its handler: each sends the
\* message that there are no data.
C14_MissingResourceCaught ==
    (req.op \in { "cb_report_request", "cb_trends_request" } /\ ResourceMissing) =>
        /\ req.did.escaped = ""
        /\ req.did.sent.t = "no data"

\* The statistics of the dataset a request downloaded
Available == DOMAIN req.dataset.out.value.data \ { "data" }

\* C15: when the statistic of a trend request is not a column of the dataset
\* downloaded, plot_trend raises KeyError with the set of the statistics the
\* dataset has, and the handler sends them; when it is, nothing is raised and
\* the plot is of the dataset's array for the statistic against its dates.
C15_MissingStatistic ==
    (/\ req.op \in { "plot_trend", "cb_trends_request" }
     /\ req.dataset.made
     /\ ~req.dataset.out.raised) =>
        /\ Available = TableColumns(req.url.out.value.table) \cap stats
        /\ IF req.stat \notin Available
           THEN /\ req.out.out.raised
                /\ req.out.out.exc = "KeyError"
                /\ req.out.out.payload = Available
                /\ (req.op = "cb_trends_request" =>
                        /\ req.did.escaped = ""
                        /\ req.did.sent.t = "no statistic"
                        /\ req.did.sent.available_stats = Available)
           ELSE /\ ~req.out.out.raised
                /\ req.out.out.value.values = req.dataset.out.value.data[req.stat]
                /\ req.out.out.value.dates = req.dataset.out.value.data["data"]
                /\ Len(req.out.out.value.values) = Len(req.out.out.value.dates)

\* A trend of a statistic the table of the provinces lacks was asked for a
\* province that has rows in the interval, and KeyError carried the one
\* statistic that table has.
C15_Witness ==
    /\ req.op = "plot_trend"
    /\ req.location.level = "provincia"
    /\ req.stat = "tamponi"
    /\ req.dataset.made
    /\ ~req.dataset.out.raised
    /\ Len(req.dataset.out.value.data["data"]) > 0
    /\ req.out.out.raised
    /\ req.out.out.exc = "KeyError"
    /\ req.out.out.payload = { "totale_casi" }

\* The name the registry has for a place as the tables write it: the tables
\* capitalise the names, the registry has them in lower case.
PlaceOf(published) ==
    CASE published = <<"Roma">> -> <<"roma">>
      [] published = <<"Valle d'Aosta">> -> <<"valle d'aosta">>
      [] OTHER -> published

\* C17: download keeps the rows of the fetched table whose date is inside the
\* interval and, for a region or a province, whose place is the location; the
\* fields of the dataset are the dates and the columns that are known
\* statistics.
C17_DownloadFilters ==
    (req.op = "download" /\ req.fetched.made /\ ~req.fetched.out.raised) =>
        LET table == req.fetched.out.value
            interval == Interval(req.date_start, req.date_end)
            kept == SelectSeq(table.rows,
                        LAMBDA r : /\ Contains(interval, r.data)
                                   /\ (req.location.level \in { "regione", "provincia" } =>
                                          PlaceOf(r.place) = req.location.name))
        IN  /\ ~req.out.out.raised
            /\ DOMAIN req.out.out.value.data = { "data" } \cup (table.columns \cap stats)
            /\ \A k \in DOMAIN req.out.out.value.data :
                    req.out.out.value.data[k] =
                        [i \in 1..Len(kept) |->
                            IF k = "data" THEN kept[i].data ELSE Cell(k, kept[i].id)]

\* C18: get_data_url picks the table by the tier alone and raises ValueError
\* for any other tier; it adds the day of the start to the url exactly when
\* the interval covers a single calendar day.
C18_UrlByTierAndSingleDay ==
    req.op = "get_data_url" =>
        IF req.location.level \notin { "stato", "regione", "provincia" }
        THEN req.url.out.raised /\ req.url.out.exc = "ValueError"
        ELSE /\ ~req.url.out.raised
             /\ req.url.out.value.table =
                    (CASE req.location.level = "stato" -> "dati-andamento-nazionale"
                       [] req.location.level = "regione" -> "dati-regioni"
                       [] req.location.level = "provincia" -> "dati-province")
             /\ (req.url.out.value.dated <=> req.date_start.day = req.date_end.day)
             /\ (req.url.out.value.dated => req.url.out.value.day = req.date_start.day)

\* The groups of registry.trend_request in the string of the parse call just
\* made: the statistic, and the location and the interval where the string
\* has them.
TrendSegments == Segments(ret.string)
LocationGroupPresent ==
    \/ Len(TrendSegments) = 3
    \/ Len(TrendSegments) = 2 /\ MatchesLocation(TrendSegments[2])
IntervalGroupPresent ==
    \/ Len(TrendSegments) = 3
    \/ Len(TrendSegments) = 2 /\ ~MatchesLocation(TrendSegments[2])

\* The parse call just made was of a TrendRequestParser on a string its
\* pattern matches.
TrendCall ==
    /\ ret.called
    /\ parser.cls = "TrendRequestParser"
    /\ ret.conv.args.exc # "ValueError"

\* C21: TrendRequestParser hands three fields, the statistic, the location and
\* the interval in this order, to StatParser, LocationParser and
\* IntervalParser; an absent location is the country and an absent interval
\* the text '24/02/2020 - oggi', each whether or not the other is absent; on
\* success the result is the three values in that order.
C21_TrendFieldsAndDefaults ==
    TrendCall =>
        LET expected ==
                <<TrendSegments[1],
                  IF LocationGroupPresent
                  THEN TrendSegments[2] ELSE <<"italia">>,
                  IF IntervalGroupPresent
                  THEN TrendSegments[Len(TrendSegments)] ELSE <<"24/02/2020", "-", "oggi">>>>
            classes == <<"StatParser", "LocationParser", "IntervalParser">>
            top == TopCalls(ret.conv.calls)
        IN  /\ split(parser.cls, ret.string).fields = expected
            /\ Len(top) \in 1..3
            /\ \A k \in 1..Len(top) :
                    /\ top[k].cls = classes[k]
                    /\ top[k].field = expected[k]
            /\ ret.returned = TRUE =>
                    /\ Len(top) = 3
                    /\ parser.result.t = "list"
                    /\ Len(parser.result.items) = 3
                    /\ \A k \in 1..3 :
                            parser.result.items[k] =
                                convert(env, classes[k], expected[k]).value
                    /\ parser.result.items[1] = [t |-> "str", s |-> replace_spaces(expected[1])]
                    /\ parser.result.items[2].t = "Location"

\* A trend request with a statistic and an interval and no location succeeded:
\* the country stood in for the location, and the interval is the one written.
C21_Witness ==
    /\ TrendCall
    /\ ret.string = <<"tamponi", ",", "24/02/2020", "-", "24/02">>
    /\ ret.returned = TRUE
    /\ parser.result.items[1] = [t |-> "str", s |-> <<"tamponi">>]
    /\ parser.result.items[2] = Location(<<"italia">>, "stato")
    /\ parser.result.items[3] = Interval([day |-> 0, sec |-> 0, us |-> 0],
                                         [day |-> 0, sec |-> 0, us |-> 0])

\* The pairs of field names that stand in alphabetical order
Alphabetical ==
    { <<"dimessi_guariti", "tamponi">>, <<"dimessi_guariti", "totale_casi">>,
      <<"tamponi", "totale_casi">> }

\* get_report was called and its download gave a dataset.
ReportDownloaded ==
    /\ req.op = "get_report"
    /\ req.dataset.made
    /\ ~req.dataset.out.raised

\* C22: whenever the download for a one-day report succeeds, get_report
\* returns a report and does not raise: the header of the location and the
\* date, one line for each statistic of the dataset in alphabetical order of
\* the field names, each with the value of the statistic for the day; also
\* when the filtering left no row.
C22_ReportWheneverDownloaded ==
    ReportDownloaded =>
        /\ ~req.out.out.raised
        /\ req.out.out.value.t = "report"
        /\ req.out.out.value.location = Location_str(req.location)
        /\ req.out.out.value.date = req.date_start
        /\ LET lines == req.out.out.value.lines
           IN  /\ Len(lines) = Cardinality(Available)
               /\ { lines[i].stat : i \in 1..Len(lines) } = Available
               /\ \A i \in 1..Len(lines) : \A j \in (i + 1)..Len(lines) :
                        <<lines[i].stat, lines[j].stat>> \in Alphabetical
               /\ \A i \in 1..Len(lines) :
                        Len(req.dataset.out.value.data[lines[i].stat]) > 0 =>
                            lines[i].number = req.dataset.out.value.data[lines[i].stat][1]

====
